---- MODULE Spec2Model ----
(***************************************************************************)
(* Model of aws-ecs-deploy-py/pipe/main.py: ECSDeploy.run and the methods  *)
(* it calls.  One run of the pipe is a sequential program; each action is  *)
(* one step of it that ends at a remote call or at the end of the run.     *)
(*                                                                         *)
(* Pipe.fail(message) logs the message and exits the process with status   *)
(* 1; Pipe.success(message) logs the message.  An exception that no except *)
(* clause names leaves the run by an unhandled error (a traceback).        *)
(* get_client is modelled with the comma missing on line 59 restored.      *)
(***************************************************************************)
EXTENDS Integers, Sequences, FiniteSets, TLC

VARIABLES
    variables,        \* the pipe's resolved variables (get_variable)
    file,             \* what lies at the TASK_DEFINITION path
    pc,               \* position of the run
    task_definition,  \* run's local: the ARN update_task_definition returned
    calls,            \* remote operations invoked so far, in order
    request,          \* arguments of the update_service request, if issued
    revisions,        \* control plane: revisions it registered in this run
    errorCode,        \* Error.Code of the ClientError update_service raised
    reports,          \* what each poll of the waiter was told by the control plane
    rejected,         \* some remote operation did not succeed
    outcome,          \* "running", "success", "failed" or "error"
    diag,             \* message passed to Pipe.fail, or the unhandled exception
    emitted,          \* messages passed to Pipe.success
    waiter            \* the waiter obtained from the client, if any

vars == <<variables, file, pc, task_definition, calls, request, revisions,
          errorCode, reports, rejected, outcome, diag, emitted, waiter>>

---------------------------------------------------------------------------
(* Bounds and input domains *)

\* attempts of the 'services_stable' waiter before it gives up
WaiterMaxAttempts == 3

Regions  == {"us-east-1", "eu-west-1"}
Clusters == {"cluster-a", "cluster-b"}
Services == {"service-a", "service-b"}
Arns     == {"arn:td:1", "arn:td:2"}

NoArn     == "None"
NoRequest == [op |-> "none"]
NoCode    == "none"
NoDiag    == "none"
NoWaiter  == "none"

\* Contents of the task-definition file, by what json.load and the SDK's
\* parameter validation make of them.
Contents == {"malformed",        \* not JSON
             "list", "number",   \* JSON, but not an object
             "object",           \* JSON object the SDK's validation accepts
             "object_bad_params" \* JSON object the SDK's validation rejects
            }

Files == {[exists |-> FALSE, content |-> "malformed"]}
            \cup {[exists |-> TRUE, content |-> c] : c \in Contents}

\* Error codes a ClientError of update_service can carry.
ErrorCodes == {"ClusterNotFoundException", "ServiceNotFoundException",
               "AccessDeniedException", "InvalidParameterException",
               "ServiceNotActiveException"}

\* What one poll of the waiter can be told.
PollReports == {"stable", "pending", "failure"}

---------------------------------------------------------------------------
(* Messages *)

MsgClient       == "Failed to create boto3 client."
MsgParse        == "Failed to parse the task definition file: invalid JSON provided."
MsgNotFound     == "Not able to find the task definition in your repository."
MsgStack        == "Failed to update the stack."
MsgNoArn        == "Unable to retrieve taskDefinitionArn key."
MsgParamInvalid == "ECS task definition parameter validation error"
MsgCluster      == "ECS cluster not found. Check your CLUSTER_NAME."
MsgService      == "ECS service not found. Check your SERVICE_NAME"
MsgWaiter       == "Error waiting for service to become stable"

---------------------------------------------------------------------------
(* Pure parts *)

\* Variant: a missing file is reported like a file that does not parse.
LoadTaskDefinitionOneHandler(f) ==
    IF ~f.exists \/ f.content = "malformed"
    THEN [raised |-> "JSONDecodeError", value |-> "none"]
    ELSE [raised |-> "none", value |-> f.content]

\* json.load under the handlers of update_task_definition
LoadTaskDefinition(f) ==
    IF ~f.exists THEN [raised |-> "FileNotFoundError", value |-> "none"]
    ELSE IF f.content = "malformed"
         THEN [raised |-> "JSONDecodeError", value |-> "none"]
         ELSE [raised |-> "none", value |-> f.content]

IsMapping(v) == v \in {"object", "object_bad_params"}

\* Variant: the second branch tests the cluster code again.
HandleUpdateServiceErrorDupBranch(error_code) ==
    IF error_code = "ClusterNotFoundException" THEN MsgCluster
    ELSE IF error_code = "AccessDeniedException" THEN MsgService
    ELSE MsgStack

HandleUpdateServiceError(error_code) ==
    IF error_code = "ClusterNotFoundException" THEN MsgCluster
    ELSE IF error_code = "ServiceNotFoundException" THEN MsgService
    ELSE MsgStack

\* Variant: the URL names the service where the cluster belongs.
SuccessMessageWrongCluster(region, cluster_name, service_name) ==
    [service |-> service_name,
     url |-> [region |-> region, cluster |-> service_name, service |-> service_name]]

SuccessMessage(region, cluster_name, service_name) ==
    [service |-> service_name,
     url |-> [region |-> region, cluster |-> cluster_name, service |-> service_name]]

Count(s, op) == Cardinality({i \in 1..Len(s) : s[i] = op})

---------------------------------------------------------------------------
(* Ends of a run *)

Fail(msg) ==
    /\ outcome' = "failed"
    /\ diag' = msg
    /\ pc' = "done"

Raise(exc) ==
    /\ outcome' = "error"
    /\ diag' = exc
    /\ pc' = "done"

---------------------------------------------------------------------------
Init ==
    /\ variables \in [AWS_DEFAULT_REGION : Regions, CLUSTER_NAME : Clusters,
                      SERVICE_NAME : Services,
                      FORCE_NEW_DEPLOYMENT : BOOLEAN, WAIT : BOOLEAN]
    /\ file \in Files
    /\ pc = "update_task_definition"
    /\ task_definition = NoArn
    /\ calls = <<>>
    /\ request = NoRequest
    /\ revisions = <<>>
    /\ errorCode = NoCode
    /\ reports = <<>>
    /\ rejected = FALSE
    /\ outcome = "running"
    /\ diag = NoDiag
    /\ emitted = <<>>
    /\ waiter = NoWaiter

\* update_task_definition up to the register call: client, then the file
LoadDocument ==
    /\ pc = "update_task_definition"
    /\ \E client \in {"client", "ClientError"} :
         IF client = "ClientError"
         THEN /\ Fail(MsgClient)
              /\ rejected' = TRUE
         ELSE LET loaded == LoadTaskDefinition(file) IN
              /\ rejected' = rejected
              /\ IF loaded.raised = "JSONDecodeError" THEN Fail(MsgParse)
                 ELSE IF loaded.raised = "FileNotFoundError" THEN Fail(MsgNotFound)
                 ELSE /\ pc' = "register"
                      /\ UNCHANGED <<outcome, diag>>
    /\ UNCHANGED <<variables, file, task_definition, calls, request, revisions,
                   errorCode, reports, emitted, waiter>>

\* Variant: a response without taskDefinitionArn is not fatal and the run
\* goes on with no ARN.
RegisterTaskDefinitionKeyErrorIgnored ==
    /\ pc = "register"
    /\ LET document == LoadTaskDefinition(file).value IN
       IF ~IsMapping(document)
       THEN /\ Raise("TypeError")
            /\ UNCHANGED <<task_definition, calls, revisions, rejected>>
       ELSE /\ calls' = Append(calls, "register_task_definition")
            /\ IF document = "object_bad_params"
               THEN /\ Fail(MsgParamInvalid)
                    /\ rejected' = TRUE
                    /\ UNCHANGED <<task_definition, revisions>>
               ELSE \/ /\ Fail(MsgStack)
                       /\ rejected' = TRUE
                       /\ UNCHANGED <<task_definition, revisions>>
                    \/ \E arn \in Arns :
                         /\ revisions' = Append(revisions, arn)
                         /\ task_definition' = arn
                         /\ pc' = "update_service"
                         /\ UNCHANGED <<rejected, outcome, diag>>
                    \/ \E arn \in Arns :
                         /\ revisions' = Append(revisions, arn)
                         /\ pc' = "update_service"
                         /\ rejected' = TRUE
                         /\ UNCHANGED <<task_definition, outcome, diag>>
    /\ UNCHANGED <<variables, file, request, errorCode, reports, emitted, waiter>>

\* update_task_definition from the register call on
RegisterTaskDefinition ==
    /\ pc = "register"
    /\ LET document == LoadTaskDefinition(file).value IN
       IF ~IsMapping(document)
       THEN \* ** of a value that is no mapping: TypeError, before any call
            /\ Raise("TypeError")
            /\ UNCHANGED <<task_definition, calls, revisions, rejected>>
       ELSE /\ calls' = Append(calls, "register_task_definition")
            /\ IF document = "object_bad_params"
               THEN /\ Fail(MsgParamInvalid)
                    /\ rejected' = TRUE
                    /\ UNCHANGED <<task_definition, revisions>>
               ELSE \/ \* the control plane rejects the request
                       /\ Fail(MsgStack)
                       /\ rejected' = TRUE
                       /\ UNCHANGED <<task_definition, revisions>>
                    \/ \* registered, the response names the revision
                       \E arn \in Arns :
                         /\ revisions' = Append(revisions, arn)
                         /\ task_definition' = arn
                         /\ pc' = "update_service"
                         /\ UNCHANGED <<rejected, outcome, diag>>
                    \/ \* registered, the response lacks taskDefinitionArn
                       \E arn \in Arns :
                         /\ revisions' = Append(revisions, arn)
                         /\ Fail(MsgNoArn)
                         /\ rejected' = TRUE
                         /\ UNCHANGED task_definition
    /\ UNCHANGED <<variables, file, request, errorCode, reports, emitted, waiter>>

\* Variant: the force flag is not passed on and keeps its default.
UpdateServiceRequestDefaultForce(cluster, service, td, force_new_deployment) ==
    [op |-> "update_service", cluster |-> cluster, service |-> service,
     taskDefinition |-> td, forceNewDeployment |-> FALSE]

UpdateServiceRequest(cluster, service, td, force_new_deployment) ==
    [op |-> "update_service", cluster |-> cluster, service |-> service,
     taskDefinition |-> td, forceNewDeployment |-> force_new_deployment]

\* Variant: the error handler reports the rejection and returns.
UpdateServiceErrorNotFatal ==
    /\ pc = "update_service"
    /\ \/ /\ Fail(MsgClient)
          /\ rejected' = TRUE
          /\ UNCHANGED <<calls, request, errorCode>>
       \/ /\ calls' = Append(calls, "update_service")
          /\ request' = UpdateServiceRequest(variables.CLUSTER_NAME,
                                             variables.SERVICE_NAME,
                                             task_definition,
                                             variables.FORCE_NEW_DEPLOYMENT)
          /\ \/ /\ pc' = "updated"
                /\ UNCHANGED <<errorCode, rejected, outcome, diag>>
             \/ \E code \in ErrorCodes :
                  /\ errorCode' = code
                  /\ rejected' = TRUE
                  /\ pc' = "updated"
                  /\ UNCHANGED <<outcome, diag>>
    /\ UNCHANGED <<variables, file, task_definition, revisions, reports,
                   emitted, waiter>>

\* update_service, as run calls it
UpdateService ==
    /\ pc = "update_service"
    /\ \/ \* get_client fails
          /\ Fail(MsgClient)
          /\ rejected' = TRUE
          /\ UNCHANGED <<calls, request, errorCode>>
       \/ /\ calls' = Append(calls, "update_service")
          /\ request' = UpdateServiceRequest(variables.CLUSTER_NAME,
                                             variables.SERVICE_NAME,
                                             task_definition,
                                             variables.FORCE_NEW_DEPLOYMENT)
          /\ \/ /\ pc' = "updated"
                /\ UNCHANGED <<errorCode, rejected, outcome, diag>>
             \/ \E code \in ErrorCodes :
                  /\ errorCode' = code
                  /\ rejected' = TRUE
                  /\ Fail(HandleUpdateServiceError(code))
    /\ UNCHANGED <<variables, file, task_definition, revisions, reports,
                   emitted, waiter>>

Success ==
    /\ emitted' = Append(emitted, SuccessMessage(variables.AWS_DEFAULT_REGION,
                                                 variables.CLUSTER_NAME,
                                                 variables.SERVICE_NAME))
    /\ outcome' = "success"
    /\ pc' = "done"

\* Variant: the WAIT variable is not consulted.
AfterUpdateAlwaysWait ==
    /\ pc = "updated"
    /\ \/ /\ Fail(MsgClient)
          /\ rejected' = TRUE
          /\ UNCHANGED <<waiter, emitted>>
       \/ /\ waiter' = "services_stable"
          /\ pc' = "wait"
          /\ UNCHANGED <<rejected, outcome, diag, emitted>>
    /\ UNCHANGED <<variables, file, task_definition, calls, request, revisions,
                   errorCode, reports>>

\* run after update_service returned: the WAIT test, then the waiter or success
AfterUpdate ==
    /\ pc = "updated"
    /\ IF variables.WAIT
       THEN \/ \* get_client fails
               /\ Fail(MsgClient)
               /\ rejected' = TRUE
               /\ UNCHANGED <<waiter, emitted>>
            \/ /\ waiter' = "services_stable"
               /\ pc' = "wait"
               /\ UNCHANGED <<rejected, outcome, diag, emitted>>
       ELSE /\ Success
            /\ UNCHANGED <<rejected, diag, waiter>>
    /\ UNCHANGED <<variables, file, task_definition, calls, request, revisions,
                   errorCode, reports>>

\* What the waiter does with the report of its attempt number `attempt`.
WaiterStep(attempt, report) ==
    IF report = "stable" THEN "return"
    ELSE IF report = "failure" THEN "WaiterError"
    ELSE IF attempt >= WaiterMaxAttempts THEN "WaiterError"
    ELSE "poll"

\* Variant: when the waiter runs out of attempts the run waits again.
WaitAgainOnTimeout ==
    /\ pc = "wait"
    /\ calls' = IF reports = <<>> THEN Append(calls, "wait") ELSE calls
    /\ \E report \in PollReports :
         LET step == WaiterStep(Len(reports) + 1, report) IN
         IF step = "return"
         THEN /\ reports' = Append(reports, report)
              /\ Success
              /\ UNCHANGED <<rejected, diag>>
         ELSE IF step = "WaiterError" /\ report = "failure"
         THEN /\ reports' = Append(reports, report)
              /\ Fail(MsgWaiter)
              /\ rejected' = TRUE
              /\ UNCHANGED emitted
         ELSE IF step = "WaiterError"
         THEN /\ reports' = <<report>>
              /\ UNCHANGED <<pc, rejected, outcome, diag, emitted>>
         ELSE /\ reports' = Append(reports, report)
              /\ UNCHANGED <<pc, rejected, outcome, diag, emitted>>
    /\ UNCHANGED <<variables, file, task_definition, request, revisions,
                   errorCode, waiter>>

\* waiter.wait under run's handler, one poll at a time
Wait ==
    /\ pc = "wait"
    /\ calls' = IF reports = <<>> THEN Append(calls, "wait") ELSE calls
    /\ \E report \in PollReports :
         /\ reports' = Append(reports, report)
         /\ LET step == WaiterStep(Len(reports) + 1, report) IN
            IF step = "return"
            THEN /\ Success
                 /\ UNCHANGED <<rejected, diag>>
            ELSE IF step = "WaiterError"
            THEN /\ Fail(MsgWaiter)
                 /\ rejected' = TRUE
                 /\ UNCHANGED emitted
            ELSE UNCHANGED <<pc, rejected, outcome, diag, emitted>>
    /\ UNCHANGED <<variables, file, task_definition, request, revisions,
                   errorCode, waiter>>

Next ==
    \/ LoadDocument
    \/ RegisterTaskDefinition
    \/ UpdateService
    \/ AfterUpdate
    \/ Wait

Spec == Init /\ [][Next]_vars

\* The run is one sequential process: it takes its next step when it has one.
LiveSpec == Spec /\ WF_vars(Next)

---------------------------------------------------------------------------
(* Properties *)

Registered == Count(calls, "register_task_definition")
Updated    == Count(calls, "update_service")
Waited     == Count(calls, "wait")

ValidJSON == file.exists /\ file.content # "malformed"

\* C1: in every run where the document loads as valid JSON and no remote
\* operation is refused, register_task_definition is invoked exactly once and
\* update_service exactly once, whatever WAIT and FORCE_NEW_DEPLOYMENT are.
C1_RegisterAndUpdateOnce ==
    (pc = "done" /\ ValidJSON /\ ~rejected) => (Registered = 1 /\ Updated = 1)

C3_UpdateErrorByCode ==
    /\ (errorCode # NoCode) =>
          /\ outcome = "failed"
          /\ (errorCode = "ClusterNotFoundException") => (diag = MsgCluster)
          /\ (errorCode = "ServiceNotFoundException") => (diag = MsgService)
          /\ (errorCode \notin {"ClusterNotFoundException",
                                "ServiceNotFoundException"}) => (diag = MsgStack)
    /\ (diag = MsgCluster) => (errorCode = "ClusterNotFoundException")
    /\ (diag = MsgService) => (errorCode = "ServiceNotFoundException")

C3_Witness ==
    pc = "done" /\ errorCode = "ServiceNotFoundException" /\ diag = MsgService

\* C4: with WAIT false the waiter is never obtained nor invoked, and the step
\* that follows a successful update_service is the success message, which
\* ends the run.
C4_NoWaitWhenDisabled ==
    /\ [](~variables.WAIT => (waiter = NoWaiter /\ Waited = 0 /\ reports = <<>>))
    /\ [][(~variables.WAIT /\ pc = "updated") =>
            (pc' = "done" /\ outcome' = "success" /\ Len(emitted') = 1
             /\ calls' = calls)]_vars

C4_Witness ==
    ~variables.WAIT /\ pc = "done" /\ outcome = "success" /\ Updated = 1

NeverStable == \A i \in 1..Len(reports) : reports[i] # "stable"

\* C5: with WAIT true and a control plane that never reports the service
\* stable, the run ends, failed with the waiting message, and no success
\* message is emitted.
C5_NeverStableFails ==
    /\ [](pc = "wait" => variables.WAIT)
    /\ [](pc = "wait" => <>(pc = "done"))
    /\ []((pc = "done" /\ Waited = 1 /\ NeverStable) =>
            (outcome = "failed" /\ diag = MsgWaiter /\ emitted = <<>>))

C5_Witness ==
    /\ pc = "done"
    /\ Len(reports) = WaiterMaxAttempts
    /\ \A i \in 1..Len(reports) : reports[i] = "pending"
    /\ diag = MsgWaiter

\* C6: a remote failure ends the run and nothing is retried: each of
\* register_task_definition, update_service and the wait is invoked at most
\* once, and after a failure no remote operation is invoked.
C6_FailureIsTerminal ==
    /\ [](Registered <= 1 /\ Updated <= 1 /\ Waited <= 1)
    /\ [](rejected => (pc = "done" /\ outcome = "failed"))
    /\ [][rejected => (calls' = calls /\ reports' = reports
                       /\ revisions' = revisions)]_vars

C6_Witness ==
    /\ rejected
    /\ pc = "done"
    /\ errorCode # NoCode
    /\ calls = <<"register_task_definition", "update_service">>

\* C7: registration fails with the parameter validation message when the
\* document's parameters are rejected, and with the missing-key message when
\* the response lacks the ARN; in that second case the control plane holds
\* the new revision and update_service is not called.
C7_RegistrationDiagnostics ==
    /\ (Registered >= 1 /\ file.content = "object_bad_params") =>
          (outcome = "failed" /\ diag = MsgParamInvalid /\ revisions = <<>>
           /\ Updated = 0)
    /\ (Len(revisions) >= 1 /\ task_definition = NoArn) =>
          (pc = "done" /\ outcome = "failed" /\ diag = MsgNoArn /\ Updated = 0
           /\ request = NoRequest)

C7_Witness ==
    pc = "done" /\ Len(revisions) = 1 /\ task_definition = NoArn /\ diag = MsgNoArn

\* C8: whatever the document holds and whatever the remote operations answer,
\* a run ends either with the success message or with a failure message of
\* the pipe, never with an unhandled error.
C8_NoUnhandledError ==
    (pc = "done") =>
        \/ (outcome = "success" /\ Len(emitted) = 1 /\ diag = NoDiag)
        \/ (outcome = "failed" /\ emitted = <<>> /\ diag # NoDiag)

\* C9: update_service is requested only after register_task_definition
\* returned an ARN, carries that ARN with the configured cluster, service and
\* force flag, and no remote operation lies between the two.
C9_UpdateCarriesRevision ==
    /\ (Updated = 0) <=> (request = NoRequest)
    /\ (Updated >= 1) =>
          /\ Len(revisions) = 1
          /\ task_definition = revisions[1]
          /\ calls[1] = "register_task_definition"
          /\ calls[2] = "update_service"
          /\ request = [op |-> "update_service",
                        cluster |-> variables.CLUSTER_NAME,
                        service |-> variables.SERVICE_NAME,
                        taskDefinition |-> revisions[1],
                        forceNewDeployment |-> variables.FORCE_NEW_DEPLOYMENT]

C9_Witness ==
    Updated = 1 /\ request.forceNewDeployment /\ request.taskDefinition = "arn:td:2"

\* C10: the success message is emitted only when register_task_definition and
\* update_service succeeded and, with WAIT true, the wait returned stable; at
\* most once, after all of these, naming the configured region, cluster and
\* service in the console URL.
C10_SuccessOnlyAfterAll ==
    (emitted # <<>>) =>
        /\ Len(emitted) = 1
        /\ pc = "done" /\ outcome = "success"
        /\ ~rejected /\ errorCode = NoCode
        /\ Len(revisions) = 1 /\ task_definition = revisions[1]
        /\ request # NoRequest
        /\ IF variables.WAIT
           THEN /\ calls = <<"register_task_definition", "update_service", "wait">>
                /\ reports # <<>>
                /\ reports[Len(reports)] = "stable"
           ELSE calls = <<"register_task_definition", "update_service">>
        /\ emitted[1].service = variables.SERVICE_NAME
        /\ emitted[1].url = [region |-> variables.AWS_DEFAULT_REGION,
                             cluster |-> variables.CLUSTER_NAME,
                             service |-> variables.SERVICE_NAME]

C10_Witness ==
    variables.WAIT /\ Len(emitted) = 1 /\ Len(reports) = 2
====
